---- MODULE Spec2Model ----
(***************************************************************************)
(* The replay loop of find-non-standard-tx (src/main.rs): main() and       *)
(* submit_block().  The two Bitcoin Core nodes and the CSV file are the    *)
(* environment: the data node serves an immutable chain, the test node     *)
(* keeps a chain height, a set of known blocks and a mempool, and the      *)
(* output file keeps the rows that reached the disk.                       *)
(***************************************************************************)
EXTENDS Integers, Sequences, FiniteSets, TLC

\* ------------------------------------------------------------------ bounds
MaxHeight == 3      \* heights the data node can reach
MaxTx == 2          \* non-coinbase transactions of a block, at most
MaxRetry == 1       \* consecutive transport failures of one call, at most

\* ------------------------------------------------------- program constants
DUPLICATE_BLOCK_ERROR == "\"duplicate\""
TX_ALREADY_IN_MEMPOOL_REJECTION_REASON == "txn-already-in-mempool"

VARIABLES
    \* main()'s position and locals
    pc,                 \* "start","open","loop","hash","block","tx","send",
                        \* "submit","write","advance","done","aborted","off"
    start_height,
    current_height,
    block_count,        \* what data_node.get_block_count() returned at line 78
    block,              \* block.txdata of the block being processed
    pool_name,
    csv_rows,
    txIdx,              \* position of `for tx in block.txdata.iter()`
    block_was_unknown,
    wbuf,               \* rows held in the csv::Writer's buffer
    retries,            \* transport failures of the call being retried
    \* the environment
    file,               \* rows of the output file on disk
    dataHeight,         \* data node: getblockcount
    testHeight,         \* test node: getblockcount
    knownBlocks,        \* test node: heights whose block it has
    mempool,            \* test node: txids in its mempool
    \* history, kept to state the properties
    prevEnd,            \* how the previous run ended: "none" in the first run,
                        \* then "done", "aborted" or "off" (terminated)
    last,               \* the last RPC made in this run and its answer
    tmaLog,             \* this run: txid -> answer of testmempoolaccept
    sentLog,            \* this run: txids given to sendrawtransaction
    submitLog,          \* this run: the values submit_block returned, in order
    fetched,            \* this run: heights fetched from the data node
    delivered,          \* this run: rows serialized to the writer
    owed                \* rows buffered for blocks the test node accepted as new

progVars == <<pc, start_height, current_height, block_count, block, pool_name, csv_rows,
              txIdx, block_was_unknown, wbuf, retries>>
envVars == <<file, dataHeight, testHeight, knownBlocks, mempool>>
histVars == <<prevEnd, last, tmaLog, sentLog, submitLog, fetched, delivered,
              owed>>
vars == <<progVars, envVars, histVars>>

\* ------------------------------------------------------------ the chain
Heights == 1..MaxHeight

\* The data node's chain: the number of non-coinbase transactions of the
\* block at height h (MaxTx at height 1, two fewer at each height after it).
TxCount(h) == IF MaxTx > 2 * (h - 1) THEN MaxTx - 2 * (h - 1) ELSE 0

\* Block::txdata of the block at height h: the coinbase, then n transactions.
TxData(h, n) ==
    [i \in 1..(n + 1) |-> [txid |-> <<h, i>>, coinbase |-> (i = 1)]]

\* (variant: no transaction is taken for the coinbase)
is_coinbaseNever(tx) == FALSE

\* Transaction::is_coinbase
is_coinbase(tx) == tx.coinbase

\* block.identify_pool(...): Some(pool) for some blocks, None for the others.
identify_pool(h) == IF h % 2 = 1 THEN "F2Pool" ELSE "None"

PoolName(h) == IF identify_pool(h) = "None" THEN "Unknown" ELSE identify_pool(h)

ResultRow(h, miner, txid, reason) ==
    [height |-> h, miner |-> miner, txid |-> txid, reject_reason |-> reason]

\* ------------------------------------------------------------ RPC answers
NoCall == [op |-> "none", h |-> 0, i |-> 0, attempt |-> 0, reply |-> "none"]
Call(op, h, i, attempt, reply) ==
    [op |-> op, h |-> h, i |-> i, attempt |-> attempt, reply |-> reply]

\* bitcoincore_rpc::Error as main() and submit_block() tell its cases apart.
Ok == "Ok"
Transport == "JsonRpc(Transport)"
TransportAfter == "JsonRpc(Transport), request served"
JsonRpcOther == "JsonRpc(Rpc)"
OtherError == "Io"
ReturnedDuplicate == "\"duplicate\""
ReturnedOther == "\"inconclusive\""
IsTransport(r) == r \in {Transport, TransportAfter}

Allowed == "allowed"

\* testmempoolaccept on the test node for tx <<h, i>>: a transaction of its
\* mempool is rejected as already there; a transaction of a block the node
\* has may be rejected as already known; any other may be allowed or break a
\* policy rule.
TmaReplies(txid) ==
    IF txid \in mempool THEN {TX_ALREADY_IN_MEMPOOL_REJECTION_REASON}
    ELSE {Allowed, "scriptpubkey"}
         \cup (IF txid[1] \in knownBlocks THEN {"txn-already-known"} ELSE {})

\* sendrawtransaction on the test node.
SendReplies == {Ok, Transport, TransportAfter, JsonRpcOther, OtherError}

\* submitblock on the test node: a block it has is a duplicate.
SubmitReplies(h) ==
    (IF h \in knownBlocks THEN {ReturnedDuplicate} ELSE {Ok, ReturnedOther, TransportAfter})
    \cup {Transport, JsonRpcOther, OtherError}

\* ---------------------------------------------------------------- Init
Init ==
    /\ pc = "start"
    /\ start_height = 0
    /\ current_height = 0
    /\ block_count = 0
    /\ block = <<>>
    /\ pool_name = ""
    /\ csv_rows = <<>>
    /\ txIdx = 0
    /\ block_was_unknown = FALSE
    /\ wbuf = <<>>
    /\ retries = 0
    /\ file = <<>>
    /\ dataHeight = 0
    /\ testHeight = 0
    \* started with -stopatheight the node may have blocks above its height
    /\ \E k \in 0..MaxHeight : knownBlocks = 1..k
    /\ mempool = {}
    /\ prevEnd = "none"
    /\ last = NoCall
    /\ tmaLog = {}
    /\ sentLog = {}
    /\ submitLog = <<>>
    /\ fetched = <<>>
    /\ delivered = <<>>
    /\ owed = {}

\* ------------------------------------------------- the code's decisions
\* line 63: let start_height = test_node_height + 1;
StartHeight(test_node_height) == test_node_height + 1

\* line 72: Writer::from_path is File::create: an existing file is truncated.
OpenedFile(old) == <<>>

\* (variant: the loop stops one block early)
LoopCondStrict(h, count) == h < count

\* line 78: while current_height <= data_node.get_block_count().unwrap()
LoopCond(h, count) == h <= count

\* (a variant that filters nothing)
IsSkippedReasonNever(reason) == FALSE

\* line 101: if reject_reason == TX_ALREADY_IN_MEMPOOL_REJECTION_REASON
IsSkippedReason(reason) == reason = TX_ALREADY_IN_MEMPOOL_REJECTION_REASON

\* (variant: a transport error is fatal like the others)
SendOutcomeNoRetry(reply) ==
    CASE reply = Ok -> "break"
      [] OTHER -> "panic"

\* lines 126-148: the match on send_raw_transaction's result.
SendOutcome(reply) ==
    CASE reply = Ok -> "break"
      [] IsTransport(reply) -> "retry"
      [] OTHER -> "panic"

\* (variants: a duplicate block is fatal; any returned error is taken for
\* a duplicate; a duplicate block is submitted again; a duplicate block is
\* taken for a new one)
SubmitOutcomeDupPanic(reply) ==
    CASE reply = Ok -> "true"
      [] IsTransport(reply) -> "retry"
      [] OTHER -> "panic"
SubmitOutcomeAnyReturned(reply) ==
    CASE reply = Ok -> "true"
      [] reply \in {ReturnedDuplicate, ReturnedOther} -> "false"
      [] IsTransport(reply) -> "retry"
      [] OTHER -> "panic"
SubmitOutcomeDupRetry(reply) ==
    CASE reply = Ok -> "true"
      [] reply = DUPLICATE_BLOCK_ERROR \/ IsTransport(reply) -> "retry"
      [] OTHER -> "panic"
SubmitOutcomeDupTrue(reply) ==
    CASE reply = Ok -> "true"
      [] reply = DUPLICATE_BLOCK_ERROR -> "true"
      [] IsTransport(reply) -> "retry"
      [] OTHER -> "panic"

\* lines 174-206: the match on submit_block's result.
SubmitOutcome(reply) ==
    CASE reply = Ok -> "true"
      [] reply = DUPLICATE_BLOCK_ERROR -> "false"
      [] IsTransport(reply) -> "retry"
      [] OTHER -> "panic"

\* (variants: the rows are written whatever submit_block returned; never)
FlushGateAlways(unknown) == TRUE
FlushGateNever(unknown) == FALSE

\* line 155: if block_was_unknown
FlushGate(unknown) == unknown

\* (variant: the cursor skips a height)
NextHeightSkip(h) == h + 2

\* line 165: current_height += 1;
NextHeight(h) == h + 1

\* An .unwrap() on an Err, an .expect() or a panic!(): the run is over.
FailReplies == {Transport, JsonRpcOther}

TxidsOf(h) == {<<h, i>> : i \in 2..(TxCount(h) + 1)}
Range(s) == {s[k] : k \in 1..Len(s)}

\* --------------------------------------------------------------- actions
\* lines 61-67
GetTestHeight ==
    /\ pc = "start"
    /\ \E reply \in {Ok} \cup FailReplies :
        /\ last' = Call("getblockcount_test", 0, 0, 1, reply)
        /\ IF reply = Ok
           THEN /\ start_height' = StartHeight(testHeight)
                /\ pc' = "open"
           ELSE /\ pc' = "aborted"
                /\ UNCHANGED start_height
    /\ UNCHANGED <<current_height, block_count, block, pool_name, csv_rows, txIdx,
                   block_was_unknown, wbuf, retries, envVars, prevEnd, tmaLog,
                   sentLog, submitLog, fetched, delivered, owed>>

\* lines 69-77
OpenSink ==
    /\ pc = "open"
    /\ \/ /\ file' = OpenedFile(file)
          /\ current_height' = start_height
          /\ pc' = "loop"
       \/ /\ pc' = "aborted"          \* "Can't open output file"
          /\ UNCHANGED <<file, current_height>>
    /\ wbuf' = <<>>
    /\ UNCHANGED <<block_count, start_height, block, pool_name, csv_rows, txIdx,
                   block_was_unknown, retries, dataHeight, testHeight,
                   knownBlocks, mempool, histVars>>

\* (variant: the data node's height is read once, before the first block)
LoopCheckReadOnce ==
    /\ pc = "loop"
    /\ \E reply \in {Ok} \cup FailReplies :
        /\ last' = Call("getblockcount_data", current_height, 0, 1, reply)
        /\ block_count' = IF reply = Ok /\ fetched = <<>> THEN dataHeight ELSE block_count
        /\ pc' = IF reply # Ok THEN "aborted"
                 ELSE IF LoopCond(current_height,
                                  IF fetched = <<>> THEN dataHeight ELSE block_count)
                      THEN "hash"
                 ELSE "done"
    /\ UNCHANGED <<start_height, current_height, block, pool_name, csv_rows,
                   txIdx, block_was_unknown, wbuf, retries, envVars, prevEnd,
                   tmaLog, sentLog, submitLog, fetched, delivered,
                   owed>>

\* line 78
LoopCheck ==
    /\ pc = "loop"
    /\ \E reply \in {Ok} \cup FailReplies :
        /\ last' = Call("getblockcount_data", current_height, 0, 1, reply)
        /\ block_count' = IF reply = Ok THEN dataHeight ELSE block_count
        /\ pc' = IF reply # Ok THEN "aborted"
                 ELSE IF LoopCond(current_height, dataHeight) THEN "hash"
                 ELSE "done"
    /\ UNCHANGED <<start_height, current_height, block, pool_name, csv_rows,
                   txIdx, block_was_unknown, wbuf, retries, envVars, prevEnd,
                   tmaLog, sentLog, submitLog, fetched, delivered,
                   owed>>

\* line 79
GetBlockHash ==
    /\ pc = "hash"
    /\ \E reply \in {Ok} \cup FailReplies :
        /\ last' = Call("getblockhash", current_height, 0, 1, reply)
        /\ pc' = IF reply = Ok THEN "block" ELSE "aborted"
    /\ UNCHANGED <<block_count, start_height, current_height, block, pool_name, csv_rows,
                   txIdx, block_was_unknown, wbuf, retries, envVars, prevEnd,
                   tmaLog, sentLog, submitLog, fetched, delivered,
                   owed>>

\* lines 80-88
GetBlock ==
    /\ pc = "block"
    /\ \E reply \in {Ok} \cup FailReplies :
        /\ last' = Call("getblock", current_height, 0, 1, reply)
        /\ IF reply = Ok
           THEN /\ block' = TxData(current_height, TxCount(current_height))
                /\ pool_name' = PoolName(current_height)
                /\ csv_rows' = <<>>
                /\ txIdx' = 1
                /\ fetched' = Append(fetched, current_height)
                /\ pc' = "tx"
           ELSE /\ pc' = "aborted"
                /\ UNCHANGED <<block, pool_name, csv_rows, txIdx, fetched>>
    /\ UNCHANGED <<block_count, start_height, current_height, block_was_unknown, wbuf,
                   retries, envVars, prevEnd, tmaLog, sentLog, submitLog,
                   delivered, owed>>

\* lines 89-91
SkipCoinbase ==
    /\ pc = "tx"
    /\ txIdx <= Len(block)
    /\ is_coinbase(block[txIdx])
    /\ txIdx' = txIdx + 1
    /\ UNCHANGED <<pc, block_count, start_height, current_height, block, pool_name,
                   csv_rows, block_was_unknown, wbuf, retries, envVars,
                   histVars>>

\* (variant: a rejected transaction is given to sendrawtransaction too)
TestMempoolAcceptSendsRejected ==
    /\ pc = "tx"
    /\ txIdx <= Len(block)
    /\ ~is_coinbase(block[txIdx])
    /\ LET txid == block[txIdx].txid IN
       \E reply \in TmaReplies(txid) \cup FailReplies :
        /\ last' = Call("testmempoolaccept", current_height, txIdx, 1, reply)
        /\ IF reply \in FailReplies
           THEN /\ pc' = "aborted"
                /\ UNCHANGED <<csv_rows, txIdx, tmaLog, retries>>
           ELSE /\ tmaLog' = tmaLog \cup {<<txid, reply>>}
                /\ IF reply # Allowed
                   THEN /\ csv_rows' =
                             IF IsSkippedReason(reply) THEN csv_rows
                             ELSE Append(csv_rows,
                                     ResultRow(current_height, pool_name, txid, reply))
                        /\ IF IsSkippedReason(reply)
                           THEN txIdx' = txIdx + 1 /\ UNCHANGED <<pc, retries>>
                           ELSE pc' = "send" /\ retries' = 0 /\ UNCHANGED txIdx
                   ELSE /\ pc' = "send"
                        /\ retries' = 0
                        /\ UNCHANGED <<csv_rows, txIdx>>
    /\ UNCHANGED <<block_count, start_height, current_height, block, pool_name,
                   block_was_unknown, wbuf, envVars, prevEnd, sentLog, submitLog,
                   fetched, delivered, owed>>

\* (variant: a transport failure of testmempoolaccept is tried again)
TestMempoolAcceptRetries ==
    /\ pc = "tx"
    /\ txIdx <= Len(block)
    /\ ~is_coinbase(block[txIdx])
    /\ LET txid == block[txIdx].txid IN
       \E reply \in TmaReplies(txid) \cup FailReplies :
        /\ last' = Call("testmempoolaccept", current_height, txIdx, 1, reply)
        /\ IF reply \in FailReplies
           THEN /\ pc' = IF IsTransport(reply) THEN pc ELSE "aborted"
                /\ UNCHANGED <<csv_rows, txIdx, tmaLog, retries>>
           ELSE /\ tmaLog' = tmaLog \cup {<<txid, reply>>}
                /\ IF reply # Allowed
                   THEN /\ csv_rows' =
                             IF IsSkippedReason(reply) THEN csv_rows
                             ELSE Append(csv_rows,
                                     ResultRow(current_height, pool_name, txid, reply))
                        /\ txIdx' = txIdx + 1
                        /\ UNCHANGED <<pc, retries>>
                   ELSE /\ pc' = "send"
                        /\ retries' = 0
                        /\ UNCHANGED <<csv_rows, txIdx>>
    /\ UNCHANGED <<block_count, start_height, current_height, block, pool_name,
                   block_was_unknown, wbuf, envVars, prevEnd, sentLog, submitLog,
                   fetched, delivered, owed>>

\* lines 93-119
TestMempoolAccept ==
    /\ pc = "tx"
    /\ txIdx <= Len(block)
    /\ ~is_coinbase(block[txIdx])
    /\ LET txid == block[txIdx].txid IN
       \E reply \in TmaReplies(txid) \cup FailReplies :
        /\ last' = Call("testmempoolaccept", current_height, txIdx, 1, reply)
        /\ IF reply \in FailReplies
           THEN /\ pc' = "aborted"
                /\ UNCHANGED <<csv_rows, txIdx, tmaLog, retries>>
           ELSE /\ tmaLog' = tmaLog \cup {<<txid, reply>>}
                /\ IF reply # Allowed
                   THEN /\ csv_rows' =
                             IF IsSkippedReason(reply) THEN csv_rows
                             ELSE Append(csv_rows,
                                     ResultRow(current_height, pool_name, txid, reply))
                        /\ txIdx' = txIdx + 1
                        /\ UNCHANGED <<pc, retries>>
                   ELSE /\ pc' = "send"
                        /\ retries' = 0
                        /\ UNCHANGED <<csv_rows, txIdx>>
    /\ UNCHANGED <<block_count, start_height, current_height, block, pool_name,
                   block_was_unknown, wbuf, envVars, prevEnd, sentLog, submitLog,
                   fetched, delivered, owed>>

\* lines 120-150
SendRawTransaction ==
    /\ pc = "send"
    /\ LET txid == block[txIdx].txid IN
       \E reply \in SendReplies :
        /\ IsTransport(reply) => retries < MaxRetry
        /\ last' = Call("sendrawtransaction", current_height, txIdx, retries + 1, reply)
        /\ sentLog' = sentLog \cup {txid}
        /\ mempool' = IF reply \in {Ok, TransportAfter} THEN mempool \cup {txid}
                      ELSE mempool
        /\ CASE SendOutcome(reply) = "break" ->
                  /\ pc' = "tx"
                  /\ txIdx' = txIdx + 1
                  /\ retries' = 0
             [] SendOutcome(reply) = "retry" ->
                  /\ retries' = retries + 1
                  /\ UNCHANGED <<pc, txIdx>>
             [] OTHER ->
                  /\ pc' = "aborted"
                  /\ UNCHANGED <<txIdx, retries>>
    /\ UNCHANGED <<block_count, start_height, current_height, block, pool_name, csv_rows,
                   block_was_unknown, wbuf, file, dataHeight,
                   testHeight, knownBlocks, prevEnd, tmaLog, submitLog, fetched,
                   delivered, owed>>

\* (variant: the block is submitted before its transactions are all done)
ForEndEarly ==
    /\ pc = "tx"
    /\ pc' = "submit"
    /\ retries' = 0
    /\ UNCHANGED <<block_count, start_height, current_height, block, pool_name, csv_rows,
                   txIdx, block_was_unknown, wbuf, envVars, histVars>>

\* line 88: the for loop is over
ForEnd ==
    /\ pc = "tx"
    /\ txIdx > Len(block)
    /\ pc' = "submit"
    /\ retries' = 0
    /\ UNCHANGED <<block_count, start_height, current_height, block, pool_name, csv_rows,
                   txIdx, block_was_unknown, wbuf, envVars, histVars>>

\* line 154 and submit_block, lines 172-210
SubmitBlock ==
    /\ pc = "submit"
    /\ \E reply \in SubmitReplies(current_height) :
        /\ IsTransport(reply) => retries < MaxRetry
        /\ last' = Call("submitblock", current_height, 0, retries + 1, reply)
        /\ IF reply \in {Ok, TransportAfter}
           THEN /\ knownBlocks' = knownBlocks \cup {current_height}
                /\ testHeight' = current_height
                /\ mempool' = mempool \ TxidsOf(current_height)
                /\ owed' = owed \cup Range(csv_rows)
           ELSE UNCHANGED <<knownBlocks, testHeight, mempool, owed>>
        /\ CASE SubmitOutcome(reply) \in {"true", "false"} ->
                  /\ block_was_unknown' = (SubmitOutcome(reply) = "true")
                  /\ submitLog' = Append(submitLog,
                        [h |-> current_height, unknown |-> SubmitOutcome(reply) = "true"])
                  /\ pc' = "write"
                  /\ retries' = 0
             [] SubmitOutcome(reply) = "retry" ->
                  /\ retries' = retries + 1
                  /\ UNCHANGED <<pc, block_was_unknown, submitLog>>
             [] OTHER ->
                  /\ pc' = "aborted"
                  /\ UNCHANGED <<block_was_unknown, submitLog, retries>>
    /\ UNCHANGED <<block_count, start_height, current_height, block, pool_name, csv_rows,
                   txIdx, wbuf, file, dataHeight, prevEnd, tmaLog, sentLog,
                   fetched, delivered>>

\* lines 155-163
WriteRows ==
    /\ pc = "write"
    /\ IF FlushGate(block_was_unknown)
       THEN /\ wbuf' = wbuf \o csv_rows
            /\ delivered' = delivered \o csv_rows
       ELSE UNCHANGED <<wbuf, delivered>>
    /\ pc' = "advance"
    /\ UNCHANGED <<block_count, start_height, current_height, block, pool_name, csv_rows,
                   txIdx, block_was_unknown, retries, envVars, prevEnd, last,
                   tmaLog, sentLog, submitLog, fetched, owed>>

\* (variant: the rows of a block stay in the buffer when the height moves on)
AdvanceKeepsRows ==
    /\ pc = "advance"
    /\ current_height' = NextHeight(current_height)
    /\ file' = file \o wbuf
    /\ wbuf' = <<>>
    /\ pc' = "loop"
    /\ UNCHANGED <<block_count, start_height, block, pool_name, csv_rows, txIdx,
                   block_was_unknown, retries, dataHeight, testHeight, knownBlocks,
                   mempool, histVars>>

\* (variant: the flush of line 166 is missing)
AdvanceNoFlush ==
    /\ pc = "advance"
    /\ csv_rows' = <<>>
    /\ current_height' = NextHeight(current_height)
    /\ pc' = "loop"
    /\ UNCHANGED <<block_count, start_height, block, pool_name, txIdx,
                   block_was_unknown, wbuf, retries, envVars, histVars>>

\* lines 164-166
Advance ==
    /\ pc = "advance"
    /\ csv_rows' = <<>>
    /\ current_height' = NextHeight(current_height)
    /\ file' = file \o wbuf
    /\ wbuf' = <<>>
    /\ pc' = "loop"
    /\ UNCHANGED <<block_count, start_height, block, pool_name, txIdx, block_was_unknown,
                   retries, dataHeight, testHeight, knownBlocks,
                   mempool, histVars>>

\* The process is terminated from outside: what the writer's buffer had
\* already passed to the file stays, the rest is gone.
Kill ==
    /\ pc \notin {"done", "aborted", "off"}
    /\ \E k \in 0..Len(wbuf) : file' = file \o SubSeq(wbuf, 1, k)
    /\ wbuf' = <<>>
    /\ pc' = "off"
    /\ UNCHANGED <<block_count, start_height, current_height, block, pool_name, csv_rows,
                   txIdx, block_was_unknown, retries, dataHeight,
                   testHeight, knownBlocks, mempool, histVars>>

\* The program is started again: main() from its first line.
Restart ==
    /\ pc \in {"done", "aborted", "off"}
    /\ prevEnd' = pc
    /\ pc' = "start"
    /\ start_height' = 0
    /\ current_height' = 0
    /\ block_count' = 0
    /\ block' = <<>>
    /\ pool_name' = ""
    /\ csv_rows' = <<>>
    /\ txIdx' = 0
    /\ block_was_unknown' = FALSE
    /\ wbuf' = <<>>
    /\ retries' = 0
    /\ last' = NoCall
    /\ tmaLog' = {}
    /\ sentLog' = {}
    /\ submitLog' = <<>>
    /\ fetched' = <<>>
    /\ delivered' = <<>>
    /\ UNCHANGED <<envVars, owed>>

\* The data node is still syncing: its chain grows.
DataGrow ==
    /\ dataHeight < MaxHeight
    /\ dataHeight' = dataHeight + 1
    /\ UNCHANGED <<progVars, file, testHeight, knownBlocks, mempool,
                   histVars>>

Next ==
    \/ GetTestHeight
    \/ OpenSink
    \/ LoopCheck
    \/ GetBlockHash
    \/ GetBlock
    \/ SkipCoinbase
    \/ TestMempoolAccept
    \/ SendRawTransaction
    \/ ForEnd
    \/ SubmitBlock
    \/ WriteRows
    \/ Advance
    \/ Kill
    \/ Restart
    \/ DataGrow

Spec == Init /\ [][Next]_vars

\* One step of main(): the process is not killed and runs to its return or
\* to its panic.
RunStep ==
    \/ GetTestHeight
    \/ OpenSink
    \/ LoopCheck
    \/ GetBlockHash
    \/ GetBlock
    \/ SkipCoinbase
    \/ TestMempoolAccept
    \/ SendRawTransaction
    \/ ForEnd
    \/ SubmitBlock
    \/ WriteRows
    \/ Advance

LiveNext == RunStep \/ DataGrow

\* A single run that keeps taking steps while the data node may grow.
LiveSpec == Init /\ [][LiveNext]_vars /\ WF_vars(RunStep)

\* ------------------------------------------------------------ properties
\* The rows of the sink: those on disk, then those the writer still holds.
Sink == file \o wbuf

\* main() is inside an iteration of the while loop, past the block fetch.
InBlock == {"tx", "send", "submit", "write", "advance"}

\* The answers of testmempoolaccept, as the properties tell them apart.
AlreadyInMempool(reply) == reply = "txn-already-in-mempool"
IsRejection(reply) == reply # Allowed /\ ~AlreadyInMempool(reply)

\* The answers testmempoolaccept gave for txid in this run.
RepliesOf(txid) == {e[2] : e \in {x \in tmaLog : x[1] = txid}}

\* The heights for which submit_block returned true / false in this run.
NewHeights == {submitLog[k].h : k \in {j \in 1..Len(submitLog) : submitLog[j].unknown}}
DupHeights == {submitLog[k].h : k \in {j \in 1..Len(submitLog) : ~submitLog[j].unknown}}

\* The rows of this run's block h whose write loop (lines 156-162) is over.
Written(h) == h < current_height \/ (h = current_height /\ pc = "advance")
DeliveredFor(h) == SelectSeq(delivered, LAMBDA r : r.height = h)

\* The rows the classification pass of block h buffers: one per non-coinbase
\* transaction rejected for another reason than already-in-mempool, in block
\* order.
RejectedTxs(h) ==
    SelectSeq(TxData(h, TxCount(h)),
              LAMBDA tx : /\ ~tx.coinbase
                          /\ \E r \in RepliesOf(tx.txid) : IsRejection(r))
ExpectedRows(h) ==
    [k \in 1..Len(RejectedTxs(h)) |->
        ResultRow(h, PoolName(h), RejectedTxs(h)[k].txid,
                  CHOOSE r \in RepliesOf(RejectedTxs(h)[k].txid) : IsRejection(r))]

\* C1: every row written to the sink in a run belongs to a transaction that
\* is not the coinbase, that testmempoolaccept rejected in this run for a
\* reason other than already-in-mempool (the reason the row carries), and
\* whose block's submit_block returned true in this run; while the run is
\* in its loop the sink holds these rows and no other.
C1_RowsAreGenuine ==
    /\ \A k \in 1..Len(delivered) :
          LET row == delivered[k] IN
          /\ row.txid[2] # 1
          /\ row.reject_reason \in RepliesOf(row.txid)
          /\ IsRejection(row.reject_reason)
          /\ row.txid[1] = row.height
          /\ row.height \in NewHeights
    /\ (pc \in {"loop", "hash", "block", "done"} \cup InBlock) => (Sink = delivered)

C1_Witness ==
    /\ pc = "done"
    /\ Len(delivered) >= 1
    /\ DupHeights # {}

\* C2: for a block whose submit_block returned true, the rows delivered for
\* its height are exactly the rows its classification pass buffered: one per
\* rejected non-coinbase transaction, in block order.
C2_NewBlockRowsExact ==
    \A h \in NewHeights : Written(h) => DeliveredFor(h) = ExpectedRows(h)

C2_Witness ==
    \E h \in NewHeights :
        /\ Written(h)
        /\ Len(DeliveredFor(h)) = 1
        /\ DeliveredFor(h)[1].txid = <<h, 2>>
        /\ <<h, 3>> \in sentLog

\* C3: for a block whose submitblock answered duplicate, submit_block
\* returns false without aborting, and no row is delivered for its height,
\* however many rows were buffered for it.
C3_DuplicateDropsRows ==
    /\ \A h \in DupHeights : DeliveredFor(h) = <<>>
    /\ (last.op = "submitblock" /\ last.reply = ReturnedDuplicate)
          => /\ pc # "aborted"
             /\ last.h \in DupHeights

C3_Witness ==
    \E h \in DupHeights :
        /\ Written(h)
        /\ Len(ExpectedRows(h)) = MaxTx

\* C4: no result record is lost by an interruption followed by a complete
\* run: once the run after a terminated one has returned, every row buffered
\* for a block the test node accepted as new is in the file.
C4_NoRecordLost ==
    (prevEnd = "off" /\ pc = "done") => owed \subseteq Range(file)

\* C5: across runs no (height, txid) appears twice in the sink, and neither
\* a duplicate answer of submitblock nor an already-in-mempool answer of
\* testmempoolaccept leaves the run aborted.
C5_IdempotentResumption ==
    /\ \A j, k \in 1..Len(Sink) :
          (Sink[j].height = Sink[k].height /\ Sink[j].txid = Sink[k].txid) => j = k
    /\ (last.op = "submitblock" /\ last.reply = ReturnedDuplicate) => pc # "aborted"
    /\ (last.op = "testmempoolaccept" /\ AlreadyInMempool(last.reply)) => pc # "aborted"

C5_Witness ==
    /\ prevEnd # "none"
    /\ pc = "done"
    /\ \E e \in tmaLog : AlreadyInMempool(e[2])
    /\ Len(file) >= 1

\* C6: the sink is append-only across runs: opening it at the start of a
\* run (line 72) leaves the rows an earlier run wrote where they are.
C6_OpenKeepsRows ==
    [][(pc = "open" /\ pc' = "loop") => file' = file]_vars

\* C7: a transaction testmempoolaccept rejects as already in the mempool
\* gets no row, is not given to sendrawtransaction in that run, and the loop
\* goes on with the next transaction of the block.
C7_AlreadyInMempoolSkipped ==
    /\ \A e \in tmaLog : AlreadyInMempool(e[2]) =>
          /\ e[1] \notin sentLog
          /\ \A k \in 1..Len(csv_rows) : csv_rows[k].txid # e[1]
          /\ \A k \in 1..Len(delivered) : delivered[k].txid # e[1]
    /\ (last.op = "testmempoolaccept" /\ AlreadyInMempool(last.reply)) =>
          /\ pc \in {"tx", "submit", "off"}
          /\ txIdx = last.i + 1
          /\ current_height = last.h

C7_Witness ==
    /\ pc = "done"
    /\ \E e \in tmaLog : AlreadyInMempool(e[2]) /\ e[1][1] \in NewHeights

\* A step that makes the RPC `op` (the answer is in last').
Calls(op) == last' # last /\ last'.op = op
Submission == {"sendrawtransaction", "submitblock"}

IsFatal(reply) ==
    reply # Ok /\ ~IsTransport(reply) /\ reply # ReturnedDuplicate
C9_FatalErrorsAbort ==
    [][/\ (\E op \in Submission : Calls(op)) /\ IsFatal(last'.reply) =>
            /\ pc' = "aborted"
            /\ UNCHANGED <<current_height, file, wbuf, delivered, submitLog>>
       /\ (pc = "aborted" /\ pc' # "start") =>
            /\ pc' = "aborted"
            /\ UNCHANGED <<last, current_height, file, wbuf, delivered,
                           testHeight, knownBlocks, mempool>>
      ]_vars

C9_Witness ==
    /\ pc = "aborted"
    /\ last.op = "submitblock"
    /\ last.reply = ReturnedOther
    /\ Len(csv_rows) >= 1

\* C10: the cursor starts at the test node's height plus one and grows by
\* one per processed block: the heights fetched in a run are start_height,
\* start_height + 1, ... without gap or repetition, and each is submitted
\* once, in that order.
C10_ContiguousHeights ==
    /\ pc = "open" => start_height = testHeight + 1
    /\ \A k \in 1..Len(fetched) : fetched[k] = start_height + k - 1
    /\ pc \in InBlock =>
          /\ Len(fetched) >= 1
          /\ current_height = fetched[Len(fetched)]
    /\ pc \in {"loop", "hash", "block", "done"} =>
          current_height = start_height + Len(fetched)
    /\ Len(submitLog) \in {Len(fetched), Len(fetched) - 1}
    /\ \A k \in 1..Len(submitLog) : submitLog[k].h = fetched[k]
    /\ pc \in {"loop", "hash", "block", "done", "write", "advance"} =>
          Len(submitLog) = Len(fetched)
    /\ pc \in {"tx", "send", "submit"} => Len(submitLog) = Len(fetched) - 1

C10_Witness ==
    /\ pc = "done"
    /\ Len(fetched) = MaxHeight
    /\ Len(submitLog) = MaxHeight

EmptyHeights == {h \in Heights : TxCount(h) = 0}
Processed(h) ==
    \E k \in 1..Len(fetched) :
        fetched[k] = h /\ (h < current_height \/ pc \in {"write", "advance"})
C12_CoinbaseExcluded ==
    /\ \A e \in tmaLog : e[1][2] # 1
    /\ \A txid \in sentLog : txid[2] # 1
    /\ \A k \in 1..Len(csv_rows) : csv_rows[k].txid[2] # 1
    /\ \A k \in 1..Len(delivered) : delivered[k].txid[2] # 1
    /\ last.op \in {"testmempoolaccept", "sendrawtransaction"} => last.i # 1
    /\ \A h \in EmptyHeights :
          /\ \A e \in tmaLog : e[1][1] # h
          /\ \A txid \in sentLog : txid[1] # h
          /\ DeliveredFor(h) = <<>>
          /\ (h = current_height /\ pc \in InBlock) => csv_rows = <<>>
          /\ Processed(h) => h \in NewHeights \cup DupHeights

C12_Witness ==
    /\ pc = "done"
    /\ EmptyHeights \cap NewHeights # {}
    /\ EmptyHeights \cap DupHeights # {}
    /\ tmaLog # {}

\* C13: the sink is flushed after every block: when the run is at a height
\* (or has returned, or was terminated there), the rows delivered for the
\* heights below it are in the file, and between two blocks the writer
\* holds nothing back.
EarlierRows == SelectSeq(delivered, LAMBDA r : r.height < current_height)
C13_FlushedPerBlock ==
    /\ Len(EarlierRows) <= Len(file)
    /\ \A k \in 1..Len(EarlierRows) : file[k] = EarlierRows[k]
    /\ pc \in {"loop", "hash", "block", "tx", "send", "submit", "write", "done"} =>
          (wbuf = <<>> /\ file = delivered /\ file = EarlierRows)

C13_Witness ==
    /\ pc = "off"
    /\ last.op = "getblock"
    /\ last.h = current_height
    /\ Len(EarlierRows) >= 1
    /\ file = EarlierRows

\* C14: the replay is sequential: the transactions of a block are tested in
\* block order, each after the one before it is done (rejected, or sent with
\* success); submitblock is first called when all of them are classified;
\* and no transaction of a height is tested before submit_block has returned
\* for every height before it.
TxDone(h, j) ==
    /\ RepliesOf(<<h, j>>) # {}
    /\ Allowed \in RepliesOf(<<h, j>>) => <<h, j>> \in mempool
AllowedTxs == {e[1] : e \in {x \in tmaLog : x[2] = Allowed}}
SendPending(txid) ==
    pc \in {"send", "off", "aborted"} /\ txIdx \in 1..Len(block) /\ block[txIdx].txid = txid
C15_SentIffAllowed ==
    /\ sentLog \subseteq AllowedTxs
    /\ \A e \in tmaLog : e[2] # Allowed => e[1] \notin sentLog
    /\ \A txid \in AllowedTxs :
          /\ txid \in sentLog \/ (SendPending(txid) /\ pc # "aborted")
          /\ \A k \in 1..Len(csv_rows) : csv_rows[k].txid # txid
          /\ \A k \in 1..Len(delivered) : delivered[k].txid # txid
          /\ ~SendPending(txid) => (txid \in mempool \/ txid[1] \in knownBlocks)

C15_Witness ==
    /\ pc = "done"
    /\ sentLog # {}
    /\ \E e \in tmaLog : IsRejection(e[2])
    /\ Len(delivered) >= 1

\* C16: a submission call is made again for the same item only when the
\* attempt just before it, for that item, failed at transport level; after
\* a success, a duplicate answer or another error it is not made again in
\* the run.
SubmitTried(h) ==
    \/ last.op = "submitblock" /\ last.h = h
    \/ \E k \in 1..Len(submitLog) : submitLog[k].h = h
C16_RepeatOnlyAfterTransport ==
    [][/\ Calls("sendrawtransaction") =>
            IF <<last'.h, last'.i>> \in sentLog
            THEN /\ last.op = "sendrawtransaction"
                 /\ last.h = last'.h /\ last.i = last'.i
                 /\ IsTransport(last.reply)
                 /\ last'.attempt = last.attempt + 1
            ELSE last'.attempt = 1
       /\ Calls("submitblock") =>
            IF SubmitTried(last'.h)
            THEN /\ last.op = "submitblock"
                 /\ last.h = last'.h
                 /\ IsTransport(last.reply)
                 /\ last'.attempt = last.attempt + 1
                 /\ \A k \in 1..Len(submitLog) : submitLog[k].h # last'.h
            ELSE last'.attempt = 1
      ]_vars

C16_Witness ==
    /\ pc = "write"
    /\ last.op = "submitblock"
    /\ last.attempt = 2
    /\ last.reply = ReturnedDuplicate

RowOfBlock(r, h) ==
    /\ r.height = h
    /\ r.miner = PoolName(h)
    /\ r.txid[1] = h
    /\ r.txid[2] \in 2..(TxCount(h) + 1)
C18_BufferPerHeight ==
    /\ \A k \in 1..Len(csv_rows) :
          /\ RowOfBlock(csv_rows[k], current_height)
          /\ csv_rows[k].miner = pool_name
          /\ csv_rows[k].txid \in TxidsOf(current_height)
          /\ \E n \in 1..Len(block) : block[n].txid = csv_rows[k].txid
    /\ (pc = "tx" /\ txIdx = 1) => csv_rows = <<>>
    /\ pc \in {"loop", "hash", "block", "done"} => csv_rows = <<>>
    /\ \A k \in 1..Len(delivered) : RowOfBlock(delivered[k], delivered[k].height)
    /\ \A k \in 1..Len(Sink) : RowOfBlock(Sink[k], Sink[k].height)
    /\ \A h \in NewHeights \cup DupHeights :
          \A k \in 1..Len(DeliveredFor(h)) :
              \E e \in tmaLog : e[1] = DeliveredFor(h)[k].txid /\ e[1][1] = h

\* The block before was a duplicate whose rows were dropped, and the
\* classification of the next height begins.
C18_Witness ==
    /\ pc = "tx"
    /\ txIdx = 1
    /\ current_height >= 2
    /\ (current_height - 1) \in DupHeights
    /\ Len(RejectedTxs(current_height - 1)) >= 1
    /\ csv_rows = <<>>

\* C19: only the two submission calls are tried again: a failure of any
\* kind of testmempoolaccept, or of a height, block hash or block fetch call,
\* ends the run at once, the call is never made a second time for the same
\* item, nothing is written at that step and no row of the height being
\* processed is in the sink.
NoRetryOps ==
    {"getblockcount_test", "getblockcount_data", "getblockhash", "getblock",
     "testmempoolaccept"}
C19_NoRetryElsewhere ==
    /\ [][/\ \A op \in NoRetryOps :
                Calls(op) =>
                    /\ last'.attempt = 1
                    /\ ~(last.op = op /\ last.h = last'.h /\ last.i = last'.i
                            /\ last.reply \in FailReplies)
                    /\ last'.reply \in FailReplies =>
                          /\ pc' = "aborted"
                          /\ file' = file
                          /\ wbuf' = wbuf
                          /\ delivered' = delivered
                          /\ csv_rows' = csv_rows
                          /\ \A k \in 1..Len(file' \o wbuf') :
                                (file' \o wbuf')[k].height # current_height
                                    \/ pc = "start"
          /\ pc = "aborted" => (last' = last /\ file' = file) \/ pc' = "start"
         ]_vars
    /\ []((pc = "aborted" /\ last.op \in NoRetryOps /\ last.reply \in FailReplies) =>
            \A k \in 1..Len(Sink) :
                Sink[k].height # current_height \/ last.op = "getblockcount_test")

\* testmempoolaccept failed at transport level while rows of the block were
\* buffered: the run is over and the rows are not in the sink.
C19_Witness ==
    /\ pc = "aborted"
    /\ last.op = "testmempoolaccept"
    /\ last.reply = Transport
    /\ Len(csv_rows) >= 1
    /\ \A k \in 1..Len(Sink) : Sink[k].height # current_height

====
